---- MODULE Spec2Model ----
(***************************************************************************)
(* A model of progressbar.h: a one-line progress bar drawn on stderr.      *)
(* The bar's state is the struct _progressbar_t; the operations are        *)
(* progressbar_new_with_format, progressbar_update_label,                  *)
(* progressbar_update, progressbar_inc and progressbar_finish; every one   *)
(* but progressbar_update_label ends in progressbar_draw.                  *)
(*                                                                         *)
(* progressbar_draw computes the fill count and the remaining time in      *)
(* double arithmetic.  The model carries out that arithmetic as IEEE-754   *)
(* binary64 does (53-bit significand, round to nearest, ties to even), on  *)
(* significands held as bit sequences, so that the truncation to int sees  *)
(* the rounded value and not the exact quotient.                           *)
(***************************************************************************)
EXTENDS Integers, Sequences, FiniteSets, TLC

(***************************************************************************)
(* Program constants (progressbar.h:122-133)                               *)
(***************************************************************************)
DEFAULT_SCREEN_WIDTH == 80
MINIMUM_BAR_WIDTH == 10
ETA_FORMAT_LENGTH == 13
WHITESPACE_LENGTH == 2
BAR_BORDER_WIDTH == 2

\* Width of the significand of a C double (IEEE-754 binary64).
DBL_MANT_DIG == 53

(***************************************************************************)
(* Bounds of the model                                                     *)
(***************************************************************************)
\* largest bar->max of the state machine
MaxMax == 2
\* largest bar->value of the state machine (one past MaxMax: the bar can overrun)
MaxValue == 3
\* the clock of the state machine runs from 0 to MaxTime seconds
MaxTime == 1
\* largest ws_col the layout specification tries
MaxScreenWidth == 45
\* longest label the layout specification tries
MaxLabelLen == 20
\* largest bar->max of the fill and ETA specifications
MaxSteps == 22
\* largest bar_width of the fill specification
MaxBarWidth == 24
\* largest elapsed time (seconds) of the ETA specification
MaxElapsed == 15
\* progressbar_calc_time_components is tried on 0..MaxSeconds and on the same
\* range shifted by a hundred hours
MaxSeconds == 3700

(***************************************************************************)
(* C arithmetic                                                            *)
(***************************************************************************)
\* int / int in C truncates toward zero.
CDiv(a, b) ==
  IF a >= 0 THEN a \div b ELSE -((-a) \div b)

(***************************************************************************)
(* Non-negative doubles.  A finite non-zero double is [m, e]: m is the     *)
(* significand, DBL_MANT_DIG bits, most significant first, m[1] = 1, and   *)
(* the value is 1.m[2]m[3]... * 2^e.  Zero has the empty significand.      *)
(* nan marks the result of a division by zero.                             *)
(***************************************************************************)
DoubleZero == [nan |-> FALSE, m |-> <<>>, e |-> 0]
DoubleNaN == [nan |-> TRUE, m |-> <<>>, e |-> 0]

\* the bits of s, plus one, most significant first (one bit longer on carry-out)
IncBits(s) ==
  LET zeros == {i \in 1..Len(s) : s[i] = 0}
  IN IF zeros = {} THEN <<1>> \o [i \in 1..Len(s) |-> 0]
     ELSE LET j == CHOOSE i \in zeros : \A k \in zeros : k <= i
          IN [i \in 1..Len(s) |-> IF i < j THEN s[i] ELSE IF i = j THEN 1 ELSE 0]

\* Round the exact value 1.bits[2]bits[3]... * 2^e (plus a non-zero tail when
\* sticky) to DBL_MANT_DIG bits: to nearest, ties to even.
RoundBits(bits, sticky, e) ==
  LET n == Len(bits)
      padded == IF n >= DBL_MANT_DIG THEN bits
                ELSE bits \o [i \in 1..(DBL_MANT_DIG - n) |-> 0]
      kept == SubSeq(padded, 1, DBL_MANT_DIG)
      roundBit == IF n > DBL_MANT_DIG THEN bits[DBL_MANT_DIG + 1] ELSE 0
      tail == sticky \/ \E i \in (DBL_MANT_DIG + 2)..n : bits[i] = 1
      up == roundBit = 1 /\ (tail \/ kept[DBL_MANT_DIG] = 1)
      inc == IncBits(kept)
  IN IF ~up THEN [nan |-> FALSE, m |-> kept, e |-> e]
     ELSE IF Len(inc) > DBL_MANT_DIG
       THEN [nan |-> FALSE, m |-> SubSeq(inc, 1, DBL_MANT_DIG), e |-> e + 1]
       ELSE [nan |-> FALSE, m |-> inc, e |-> e]

\* 2^i modulo d, by repeated squaring (d < 2^15)
RECURSIVE PowMod2(_, _)
PowMod2(i, d) ==
  IF i = 0 THEN 1 % d
  ELSE LET h == PowMod2(i \div 2, d)
       IN (((h * h) % d) * (IF i % 2 = 1 THEN 2 ELSE 1)) % d

\* the remainder of the long division r/d (r < d) after i quotient bits
DivRem(r, d, i) ==
  (r * PowMod2(i, d)) % d

\* the first n quotient bits of r/d (r < d): bit i is set when doubling the
\* remainder left by bit i-1 reaches d
DivBits(r, d, n) ==
  [i \in 1..n |-> IF 2 * DivRem(r, d, i - 1) >= d THEN 1 ELSE 0]

\* the e with b * 2^e <= a < b * 2^(e+1), for a >= b
ExpUp(a, b) ==
  CHOOSE e \in 0..30 : b * 2^e <= a /\ a < b * 2^(e + 1)

\* the same e for a < b (negative)
ExpDown(a, b) ==
  -(CHOOSE k \in 1..30 : b <= a * 2^k /\ a * 2^(k - 1) < b)

\* (double) a / (double) b for integers a >= 0, b >= 0: both conversions are
\* exact, the quotient is rounded once.
DoubleDivInt(a, b) ==
  IF b = 0 THEN DoubleNaN
  ELSE IF a = 0 THEN DoubleZero
  ELSE LET e == IF a >= b THEN ExpUp(a, b) ELSE ExpDown(a, b)
           n == IF e < 0 THEN a * 2^(-e) ELSE a
           d == IF e > 0 THEN b * 2^e ELSE b
       IN RoundBits(<<1>> \o DivBits(n - d, d, DBL_MANT_DIG),
                    DivRem(n - d, d, DBL_MANT_DIG) # 0, e)

\* the bits of the integer n > 0, most significant first; <<>> for 0
IntBits(n) ==
  IF n = 0 THEN <<>>
  ELSE LET len == CHOOSE k \in 1..31 : 2^(k - 1) <= n /\ n \div 2 < 2^(k - 1)
       IN [i \in 1..len |-> (n \div 2^(len - i)) % 2]

\* the integer whose bits are s[lo..hi]
BitsToInt(s, lo, hi) ==
  LET RECURSIVE Sum(_)
      Sum(i) == IF i < lo THEN 0 ELSE 2 * Sum(i - 1) + s[i]
  IN Sum(hi)

\* n as exactly w bits
FixedBits(n, w) ==
  [i \in 1..w |-> (n \div 2^(w - i)) % 2]

\* The bits of (the DBL_MANT_DIG-bit integer s) * c, for 0 < c < 2^12: s is
\* multiplied limb by limb, 18 bits at a time from the low end, the carry
\* moving up.
MulBits(s, c) ==
  LET LimbBits == 18
      p0 == c * BitsToInt(s, DBL_MANT_DIG - LimbBits + 1, DBL_MANT_DIG)
      p1 == c * BitsToInt(s, DBL_MANT_DIG - 2 * LimbBits + 1, DBL_MANT_DIG - LimbBits)
            + p0 \div 2^LimbBits
      p2 == c * BitsToInt(s, 1, DBL_MANT_DIG - 2 * LimbBits) + p1 \div 2^LimbBits
  IN IntBits(p2) \o FixedBits(p1 % 2^LimbBits, LimbBits)
                 \o FixedBits(p0 % 2^LimbBits, LimbBits)

\* x * (double) c for a double x >= 0 and an integer c >= 0: the exact
\* product, rounded once.
DoubleMulInt(x, c) ==
  IF x.nan THEN DoubleNaN
  ELSE IF x.m = <<>> \/ c = 0 THEN DoubleZero
  ELSE LET prod == MulBits(x.m, c)
       IN RoundBits(prod, FALSE, x.e + Len(prod) - DBL_MANT_DIG)

\* What (int) x yields when x is not a number: the conversion is undefined,
\* this is the value x86 builds produce (INT_MIN).
IntIndefinite == -2147483647 - 1

\* (int) x: the fractional part is discarded
DoubleToInt(x) ==
  IF x.nan THEN IntIndefinite
  ELSE IF x.m = <<>> \/ x.e < 0 THEN 0
  ELSE BitsToInt(x.m, 1, x.e + 1)

(***************************************************************************)
(* The helpers of progressbar_draw                                         *)
(***************************************************************************)
progressbar_max(x, y) ==
  IF x > y THEN x ELSE y

\* ioctl_ret is what ioctl(TIOCGWINSZ) returns, ws_col the width it reports
get_screen_width(ioctl_ret, ws_col) ==
  IF ioctl_ret = -1 \/ ws_col = 0 THEN DEFAULT_SCREEN_WIDTH ELSE ws_col

progressbar_bar_width(screen_width, label_length) ==
  progressbar_max(MINIMUM_BAR_WIDTH,
                  screen_width - label_length - ETA_FORMAT_LENGTH - WHITESPACE_LENGTH)

\* progressbar_label_width, but the two separating blanks are not reserved
progressbar_label_width_no_blanks(screen_width, label_length, bar_width) ==
  LET eta_width == ETA_FORMAT_LENGTH
  IN IF label_length + 1 + bar_width + 1 + ETA_FORMAT_LENGTH > screen_width
     THEN progressbar_max(0, screen_width - bar_width - eta_width)
     ELSE label_length

\* progressbar_label_width, but without the progressbar_max(0, ...)
progressbar_label_width_unclamped(screen_width, label_length, bar_width) ==
  LET eta_width == ETA_FORMAT_LENGTH
  IN IF label_length + 1 + bar_width + 1 + ETA_FORMAT_LENGTH > screen_width
     THEN screen_width - bar_width - eta_width - WHITESPACE_LENGTH
     ELSE label_length

progressbar_label_width(screen_width, label_length, bar_width) ==
  LET eta_width == ETA_FORMAT_LENGTH
  IN IF label_length + 1 + bar_width + 1 + ETA_FORMAT_LENGTH > screen_width
     THEN progressbar_max(0, screen_width - bar_width - eta_width - WHITESPACE_LENGTH)
     ELSE label_length

\* offset is difftime(time(NULL), bar->start)
progressbar_remaining_seconds(value, max, offset) ==
  IF value > 0 /\ offset > 0
  THEN DoubleToInt(DoubleMulInt(DoubleDivInt(offset, value), max - value))
  ELSE 0

\* progressbar_calc_time_components, but the hours are not taken off before
\* the minutes are counted
progressbar_calc_time_components_keeps_hours(seconds) ==
  LET hours == CDiv(seconds, 3600)
      minutes == CDiv(seconds, 60)
      s2 == seconds - minutes * 60
  IN [hours |-> hours, minutes |-> minutes, seconds |-> s2]

progressbar_calc_time_components(seconds) ==
  LET hours == CDiv(seconds, 3600)
      s1 == seconds - hours * 3600
      minutes == CDiv(s1, 60)
      s2 == s1 - minutes * 60
  IN [hours |-> hours, minutes |-> minutes, seconds |-> s2]

\* progressbar_completed of progressbar_draw
progressbar_completed(value, max) ==
  value >= max

\* bar_piece_current of progressbar_draw
bar_piece_current(bar_piece_count, value, max) ==
  IF progressbar_completed(value, max)
  THEN bar_piece_count
  ELSE DoubleToInt(DoubleMulInt(DoubleDivInt(value, max), bar_piece_count))

\* the seconds progressbar_draw passes to progressbar_calc_time_components
eta_seconds(value, max, offset) ==
  IF progressbar_completed(value, max)
  THEN offset
  ELSE progressbar_remaining_seconds(value, max, offset)


(***************************************************************************)
(* Output                                                                  *)
(***************************************************************************)
\* Characters are one-character strings; the control characters have names.
CR == "\\r"
LF == "\\n"
ESC == "\\33"
\* the prefix the macro printf_bar writes (to stdout) before its message
CLEAR_LINE == <<ESC, "[", "2", "K", CR>>

\* a byte read past the end of a string: its value is not determined
Garbage == "?"

\* fwrite(ptr, 1, nmemb, stderr): nmemb bytes starting at ptr, whether or not
\* the string is that long
fwrite(ptr, nmemb) ==
  [i \in 1..nmemb |-> IF i <= Len(ptr) THEN ptr[i] ELSE Garbage]

\* progressbar_write_char, for times >= 0 (times is a size_t: a negative int
\* would arrive as a count near 2^64)
progressbar_write_char(ch, times) ==
  [i \in 1..times |-> ch]

DigitChars == <<"0", "1", "2", "3", "4", "5", "6", "7", "8", "9">>

\* the decimal digits of n >= 0
RECURSIVE Digits(_)
Digits(n) ==
  IF n < 10 THEN <<DigitChars[n + 1]>>
  ELSE Digits(n \div 10) \o <<DigitChars[(n % 10) + 1]>>

\* printf's %d
FormatD(n) ==
  IF n < 0 THEN <<"-">> \o Digits(-n) ELSE Digits(n)

\* printf's %<width>d with pad = " " and %0<width>d with pad = "0": the
\* width is a minimum, longer numbers are printed in full
Pad(s, width, pad) ==
  IF Len(s) >= width THEN s ELSE [i \in 1..(width - Len(s)) |-> pad] \o s

\* fprintf(stderr, ETA_FORMAT, hours, minutes, seconds), ETA_FORMAT being
\* "ETA:%2dh%02dm%02ds"
ETA_FORMAT(hours, minutes, seconds) ==
  <<"E", "T", "A", ":">> \o Pad(FormatD(hours), 2, " ") \o <<"h">>
    \o Pad(FormatD(minutes), 2, "0") \o <<"m">>
    \o Pad(FormatD(seconds), 2, "0") \o <<"s">>

\* a draw that first clears the line, as the macro printf_bar does
draw_bytes_clearing(label_part, bar_part, eta_part) ==
  CLEAR_LINE \o label_part \o bar_part \o <<" ">> \o eta_part \o <<CR>>

\* the writes of progressbar_draw, in their order (lines 293-306): the label
\* and its blank when there is one, the bar, a blank, the ETA, a carriage return
draw_bytes(label_part, bar_part, eta_part) ==
  label_part \o bar_part \o <<" ">> \o eta_part \o <<CR>>

(***************************************************************************)
(* progressbar_draw: the locals it computes and the bytes it writes to     *)
(* stderr, for the bar b, the terminal t and the clock reading time.       *)
(***************************************************************************)
progressbar_draw(b, t, time) ==
  LET screen_width == get_screen_width(t.ioctl_ret, t.ws_col)
      label_length == Len(b.label)
      bar_width == progressbar_bar_width(screen_width, label_length)
      label_width == progressbar_label_width(screen_width, label_length, bar_width)
      completed == progressbar_completed(b.value, b.max)
      bar_piece_count == bar_width - BAR_BORDER_WIDTH
      pieces == bar_piece_current(bar_piece_count, b.value, b.max)
      offset == time - b.start
      seconds == eta_seconds(b.value, b.max, offset)
      eta == progressbar_calc_time_components(seconds)
      label_part == IF label_width = 0 THEN <<>>
                    ELSE fwrite(b.label, label_width) \o <<" ">>
      bar_part == <<b.format.begin>>
                  \o progressbar_write_char(b.format.fill, pieces)
                  \o progressbar_write_char(" ", bar_piece_count - pieces)
                  \o <<b.format.end>>
      eta_part == ETA_FORMAT(eta.hours, eta.minutes, eta.seconds)
  IN [screen_width |-> screen_width,
      label_length |-> label_length,
      \* bar_width as computed at line 274, and as left by line 290
      bar_width |-> bar_width,
      bar_width_final |-> IF label_width = 0 THEN bar_width + 1 ELSE bar_width,
      label_width |-> label_width,
      progressbar_completed |-> completed,
      bar_piece_count |-> bar_piece_count,
      bar_piece_current |-> pieces,
      offset |-> offset,
      seconds |-> seconds,
      eta |-> eta,
      label_part |-> label_part,
      bar_part |-> bar_part,
      eta_part |-> eta_part,
      out |-> draw_bytes(label_part, bar_part, eta_part)]


(***************************************************************************)
(* The state                                                               *)
(***************************************************************************)
VARIABLES
  progress,   \* the caller's pointer: "unallocated", "live" or "freed"
  bar,        \* the struct _progressbar_t it points to
  now,        \* what time(NULL) returns
  tty,        \* what ioctl(TIOCGWINSZ) answers: [ioctl_ret, ws_col]
  stderr,     \* the bytes the most recent call of the library wrote to stderr
  drawn,      \* the locals of the most recent progressbar_draw
  lastOp,     \* the most recent call of the library
  incs,       \* calls of progressbar_inc since the bar was created, while onlyInc
  onlyInc,    \* no progressbar_update since the bar was created
  created,    \* max, start and format as progressbar_new_with_format set them
  args,       \* the arguments of a helper tried on its own
  result      \* what the helper returned

vars == <<progress, bar, now, tty, stderr, drawn, lastOp, incs, onlyInc,
          created, args, result>>

\* the labels the caller passes
Labels ==
  { <<"X">>,
    <<"V", "e", "r", "y", "L", "o", "n", "g", "L", "a", "b", "e", "l", "N", "a", "m", "e">> }

\* the format strings the caller passes; the first is the one progressbar_new uses
DefaultFormat == <<"|", "=", "|">>
Formats == { DefaultFormat, <<"<", "-", ">">> }

\* the terminals: no terminal at all (ioctl fails), and two widths
ScreenCols == {20, 30}
NoTerminal == [ioctl_ret |-> -1, ws_col |-> 0]
Terminals ==
  {NoTerminal} \cup {[ioctl_ret |-> 0, ws_col |-> w] : w \in ScreenCols}

\* the contents of memory that holds no bar
NoBar ==
  [max |-> 0, value |-> 0, start |-> 0, label |-> <<>>,
   format |-> [begin |-> "", fill |-> "", end |-> ""]]
NoDraw == [out |-> <<>>]
NoCreated == [max |-> 0, start |-> 0, format |-> [begin |-> "", fill |-> "", end |-> ""]]
NoArgs == <<>>
NoResult == <<>>

\* the state of the bar before the program creates one
Idle ==
  /\ progress = "unallocated"
  /\ bar = NoBar
  /\ now = 0
  /\ tty \in Terminals
  /\ stderr = <<>>
  /\ drawn = NoDraw
  /\ lastOp = "none"
  /\ incs = 0
  /\ onlyInc = TRUE
  /\ created = NoCreated

Init ==
  /\ Idle
  /\ args = NoArgs
  /\ result = NoResult

(***************************************************************************)
(* The operations                                                          *)
(***************************************************************************)
\* progressbar_draw(b) and what follows it on stderr
Draw(b, trailer) ==
  /\ drawn' = progressbar_draw(b, tty, now)
  /\ stderr' = drawn'.out \o trailer

\* malloc succeeded
progressbar_new_with_format(label, max, format) ==
  /\ progress # "live"
  /\ Len(format) = 3
  /\ LET new == [max |-> max, value |-> 0, start |-> now,
                 format |-> [begin |-> format[1], fill |-> format[2], end |-> format[3]],
                 label |-> label]
     IN /\ bar' = new
        /\ Draw(new, <<>>)
        /\ created' = [max |-> new.max, start |-> new.start, format |-> new.format]
  /\ progress' = "live"
  /\ lastOp' = "new"
  /\ incs' = 0
  /\ onlyInc' = TRUE
  /\ UNCHANGED <<now, tty, args, result>>

\* malloc failed: NULL is returned, nothing is drawn
progressbar_new_with_format_nomem ==
  /\ progress # "live"
  /\ lastOp # "new_nomem"
  /\ progress' = "unallocated"
  /\ bar' = NoBar
  /\ stderr' = <<>>
  /\ lastOp' = "new_nomem"
  /\ UNCHANGED <<now, tty, drawn, incs, onlyInc, created, args, result>>

progressbar_new(label, max) ==
  progressbar_new_with_format(label, max, DefaultFormat)

\* progressbar_update_label, but it redraws
progressbar_update_label_redraw(label) ==
  /\ progress = "live"
  /\ bar' = [bar EXCEPT !.label = label]
  /\ Draw(bar', <<>>)
  /\ lastOp' = "update_label"
  /\ UNCHANGED <<progress, now, tty, incs, onlyInc, created, args, result>>

progressbar_update_label(label) ==
  /\ progress = "live"
  /\ bar' = [bar EXCEPT !.label = label]
  /\ stderr' = <<>>
  /\ lastOp' = "update_label"
  /\ UNCHANGED <<progress, now, tty, drawn, incs, onlyInc, created, args, result>>

progressbar_update(value) ==
  /\ progress = "live"
  /\ bar' = [bar EXCEPT !.value = value]
  /\ Draw(bar', <<>>)
  /\ lastOp' = "update"
  /\ onlyInc' = FALSE
  /\ incs' = 0
  /\ UNCHANGED <<progress, now, tty, created, args, result>>

\* progressbar_inc, but it stops at max
progressbar_inc_clamped ==
  /\ progress = "live"
  /\ bar.value < MaxValue
  /\ bar' = [bar EXCEPT !.value = IF bar.value + 1 > bar.max THEN bar.max
                                  ELSE bar.value + 1]
  /\ Draw(bar', <<>>)
  /\ lastOp' = "inc"
  /\ incs' = IF onlyInc THEN incs + 1 ELSE 0
  /\ UNCHANGED <<progress, now, tty, onlyInc, created, args, result>>

progressbar_inc ==
  /\ progress = "live"
  /\ bar.value < MaxValue
  /\ bar' = [bar EXCEPT !.value = bar.value + 1]
  /\ Draw(bar', <<>>)
  /\ lastOp' = "inc"
  /\ incs' = IF onlyInc THEN incs + 1 ELSE 0
  /\ UNCHANGED <<progress, now, tty, onlyInc, created, args, result>>

\* progressbar_finish, but it fills the bar before the last draw, as its
\* comments announce
progressbar_finish_filled ==
  /\ progress = "live"
  /\ Draw([bar EXCEPT !.value = bar.max], <<LF>>)
  /\ progress' = "freed"
  /\ bar' = NoBar
  /\ lastOp' = "finish"
  /\ UNCHANGED <<now, tty, incs, onlyInc, created, args, result>>

progressbar_finish ==
  /\ progress = "live"
  /\ Draw(bar, <<LF>>)
  /\ progress' = "freed"
  /\ bar' = NoBar
  /\ lastOp' = "finish"
  /\ UNCHANGED <<now, tty, incs, onlyInc, created, args, result>>

\* a second passes
Tick ==
  /\ now < MaxTime
  /\ now' = now + 1
  /\ UNCHANGED <<progress, bar, tty, stderr, drawn, lastOp, incs, onlyInc,
                 created, args, result>>

\* the terminal is resized, attached or detached
Resize ==
  /\ \E t \in Terminals \ {tty} : tty' = t
  /\ UNCHANGED <<progress, bar, now, stderr, drawn, lastOp, incs, onlyInc,
                 created, args, result>>

Next ==
  \/ \E label \in Labels, max \in 0..MaxMax : progressbar_new(label, max)
  \/ \E label \in Labels, max \in 0..MaxMax, format \in Formats \ {DefaultFormat} :
       progressbar_new_with_format(label, max, format)
  \/ progressbar_new_with_format_nomem
  \/ \E label \in Labels : progressbar_update_label(label)
  \/ \E value \in 0..MaxValue : progressbar_update(value)
  \/ progressbar_inc
  \/ progressbar_finish
  \/ Tick
  \/ Resize

Spec == Init /\ [][Next]_vars


(***************************************************************************)
(* The helpers on their own.  Each specification below draws the arguments *)
(* of one helper from its whole bounded range and applies the helper once; *)
(* the bar itself stays idle.                                              *)
(***************************************************************************)
Apply(r) ==
  /\ result = NoResult
  /\ result' = r
  /\ UNCHANGED <<progress, bar, now, tty, stderr, drawn, lastOp, incs, onlyInc,
                 created, args>>

\* a label of n characters
LabelOfLength(n) ==
  [i \in 1..n |-> "x"]

\* progressbar_draw on a terminal of any width, a label of any length
InitLayout ==
  /\ Idle
  /\ args \in [ws_col : 0..MaxScreenWidth, label_length : 0..MaxLabelLen,
               value : 0..MaxValue, max : 0..MaxMax]
  /\ result = NoResult

ApplyLayout ==
  Apply(progressbar_draw([NoBar EXCEPT !.label = LabelOfLength(args.label_length),
                                       !.value = args.value,
                                       !.max = args.max,
                                       !.format = [begin |-> "|", fill |-> "=", end |-> "|"]],
                         [ioctl_ret |-> 0, ws_col |-> args.ws_col], now))

SpecLayout == InitLayout /\ [][ApplyLayout]_vars

\* the fill count of lines 277-281
InitFill ==
  /\ Idle
  /\ args \in [bar_width : MINIMUM_BAR_WIDTH..MaxBarWidth,
               value : 0..(MaxSteps + 1), max : 1..MaxSteps]
  /\ result = NoResult

ApplyFill ==
  Apply([bar_piece_count |-> args.bar_width - BAR_BORDER_WIDTH,
         bar_piece_current |-> bar_piece_current(args.bar_width - BAR_BORDER_WIDTH,
                                                 args.value, args.max)])

SpecFill == InitFill /\ [][ApplyFill]_vars

\* the seconds of lines 283-285, and the fill count of the narrowest bar for
\* the same value and max
InitEta ==
  /\ Idle
  /\ args \in [value : 0..(MaxSteps + 1), max : 0..MaxSteps, offset : 0..MaxElapsed]
  /\ result = NoResult

ApplyEta ==
  Apply([seconds |-> eta_seconds(args.value, args.max, args.offset),
         bar_piece_current |-> bar_piece_current(MINIMUM_BAR_WIDTH - BAR_BORDER_WIDTH,
                                                 args.value, args.max)])

SpecEta == InitEta /\ [][ApplyEta]_vars

\* progressbar_calc_time_components
HundredHours == 100 * 3600
InitTime ==
  /\ Idle
  /\ args \in [seconds : (0..MaxSeconds) \cup {HundredHours + s : s \in 0..MaxSeconds}]
  /\ result = NoResult

ApplyTime ==
  Apply(progressbar_calc_time_components(args.seconds))

SpecTime == InitTime /\ [][ApplyTime]_vars


(***************************************************************************)
(* Properties                                                              *)
(***************************************************************************)
\* the calls that end in progressbar_draw
DrawOps == {"new", "update", "inc", "finish"}

Applied == result # NoResult

Occurrences(seq, ch) ==
  Cardinality({i \in 1..Len(seq) : seq[i] = ch})

\* C1: on a screen of at least 10 + 13 + 2 columns, whatever the length of the
\* label, label, bar, ETA field and the two separating blanks fit:
\* label_width + 1 + bar_width + 1 + 13 <= screen_width.
C1_LayoutFits ==
  (Applied /\ result.screen_width >= MINIMUM_BAR_WIDTH + ETA_FORMAT_LENGTH + WHITESPACE_LENGTH)
    => result.label_width + 1 + result.bar_width + 1 + ETA_FORMAT_LENGTH
         <= result.screen_width

\* a label cut short, but not to nothing, on a screen wide enough for the bar
C1_Witness ==
  /\ Applied
  /\ result.screen_width >= MINIMUM_BAR_WIDTH + ETA_FORMAT_LENGTH + WHITESPACE_LENGTH
  /\ 0 < result.label_width
  /\ result.label_width < result.label_length

\* C2 as stated: for max > 0 and 0 <= value <= max the number of fill glyphs
\* is floor((bar_width - 2) * value / max), and the bar is full exactly when
\* value >= max.
C2_FillIsFloor ==
  Applied =>
    /\ args.value <= args.max =>
         result.bar_piece_current
           = ((args.bar_width - BAR_BORDER_WIDTH) * args.value) \div args.max
    /\ (result.bar_piece_current = args.bar_width - BAR_BORDER_WIDTH)
         <=> (args.value >= args.max)

\* C3: the components of S >= 0 seconds add up to S, minutes and seconds are
\* below 60, and hours is S / 3600 with no upper limit.
C3_TimeComponents ==
  Applied =>
    /\ result.hours * 3600 + result.minutes * 60 + result.seconds = args.seconds
    /\ 0 <= result.minutes /\ result.minutes < 60
    /\ 0 <= result.seconds /\ result.seconds < 60
    /\ result.hours = args.seconds \div 3600

\* more than 99 hours, with minutes and seconds left over
C3_Witness ==
  /\ Applied
  /\ result.hours > 99
  /\ result.minutes > 0
  /\ result.seconds > 0

\* C4 as stated: the seconds given to the ETA field are the elapsed time when
\* value >= max, else 0 when value = 0 or no time has elapsed, else the
\* truncation of elapsed * (max - value) / value; and nothing is divided by
\* zero.
C4_EtaSeconds ==
  Applied =>
    /\ result.seconds =
         IF args.value >= args.max THEN args.offset
         ELSE IF args.value = 0 \/ args.offset = 0 THEN 0
         ELSE (args.offset * (args.max - args.value)) \div args.value
    /\ result.seconds # IntIndefinite
    /\ result.bar_piece_current # IntIndefinite

\* C5 as stated: what a draw writes begins with the sequence that clears the
\* line and returns to its start.
C5_ClearsLineFirst ==
  lastOp \in DrawOps =>
    /\ Len(stderr) >= Len(CLEAR_LINE)
    /\ SubSeq(stderr, 1, Len(CLEAR_LINE)) = CLEAR_LINE

\* what the most recent draw wrote, without the newline of progressbar_finish
DrawnBytes ==
  IF lastOp = "finish" THEN SubSeq(stderr, 1, Len(stderr) - 1) ELSE stderr

\* C5, amended: a draw writes the label part, the bar, one blank and the ETA
\* string, in this order, then one carriage return and no newline; it writes
\* no escape sequence, so its first byte is the first byte of the label, or
\* the begin glyph when no label is drawn.
C5_DrawOrder ==
  lastOp \in DrawOps =>
    /\ DrawnBytes = drawn.label_part \o drawn.bar_part \o <<" ">>
                      \o drawn.eta_part \o <<CR>>
    /\ Len(drawn.label_part) =
         IF drawn.label_width = 0 THEN 0 ELSE drawn.label_width + 1
    /\ Len(drawn.bar_part) = drawn.bar_piece_count + BAR_BORDER_WIDTH
    /\ SubSeq(drawn.eta_part, 1, 4) = <<"E", "T", "A", ":">>
    /\ Occurrences(DrawnBytes, ESC) = 0
    /\ Occurrences(DrawnBytes, LF) = 0
    /\ Occurrences(DrawnBytes, CR) = 1
    /\ DrawnBytes[Len(DrawnBytes)] = CR
    /\ DrawnBytes[1] = IF drawn.label_width = 0 THEN drawn.bar_part[1]
                       ELSE drawn.label_part[1]

\* a draw that wrote a label, the bar partly filled
C5_Witness ==
  /\ lastOp = "inc"
  /\ drawn.label_width > 0
  /\ 0 < drawn.bar_piece_current
  /\ drawn.bar_piece_current < drawn.bar_piece_count

\* C6 as stated: when label_width is 0 nothing is written for the label and
\* the bar takes the freed column: it is bar_width + 1 columns wide.
C6_BarTakesFreedColumn ==
  (lastOp \in DrawOps /\ drawn.label_width = 0) =>
    /\ drawn.label_part = <<>>
    /\ Len(drawn.bar_part) = drawn.bar_width + 1

C8_UpdateLabel ==
  [][/\ lastOp' = "update_label" =>
          /\ stderr' = <<>>
          /\ bar'.value = bar.value
          /\ bar'.max = bar.max
          /\ bar'.start = bar.start
          /\ bar'.format = bar.format
          /\ drawn' = drawn
          /\ progress' = progress
     /\ (progress = "live" /\ lastOp' \in {"update", "inc", "finish"}) =>
          /\ drawn'.label_length = Len(bar.label)
          /\ drawn'.label_width > 0 =>
               SubSeq(stderr', 1, drawn'.label_width)
                 = SubSeq(bar.label, 1, drawn'.label_width)]_vars

\* the label was replaced by one of another length and nothing was drawn yet
C8_Witness ==
  /\ lastOp = "update_label"
  /\ progress = "live"
  /\ stderr = <<>>
  /\ drawn.label_length # Len(bar.label)

\* C9: after k calls of progressbar_inc on a bar created with max > 0, and no
\* progressbar_update, value is k, max, start and format are as created, and
\* the draw of the k-th call shows a complete bar (every cell filled, the
\* elapsed time in the ETA field) exactly when k >= max.
C9_Increment ==
  (progress = "live" /\ onlyInc /\ created.max > 0) =>
    /\ bar.value = incs
    /\ bar.max = created.max
    /\ bar.start = created.start
    /\ bar.format = created.format
    /\ lastOp = "inc" =>
         /\ drawn.progressbar_completed <=> (incs >= bar.max)
         /\ (drawn.bar_piece_current = drawn.bar_piece_count) <=> (incs >= bar.max)
         /\ Occurrences(drawn.bar_part, bar.format.fill) = drawn.bar_piece_current
         /\ (incs >= bar.max) => drawn.seconds = drawn.offset

\* the bar was incremented past its max
C9_Witness ==
  /\ progress = "live"
  /\ onlyInc
  /\ lastOp = "inc"
  /\ created.max > 0
  /\ incs > created.max
  /\ drawn.offset > 0

\* C10: on any screen and for any label, 0 <= label_width <= label_length and
\* 0 <= bar_piece_current <= bar_width - 2: the draw reads nothing past the
\* end of the label and repeats no character a negative number of times.
C10_WidthsInRange ==
  Applied =>
    /\ result.screen_width >= 1
    /\ 0 <= result.label_width
    /\ result.label_width <= result.label_length
    /\ 0 <= result.bar_piece_current
    /\ result.bar_piece_current <= result.bar_width - BAR_BORDER_WIDTH
    /\ result.bar_piece_count - result.bar_piece_current >= 0
    /\ Occurrences(result.label_part, Garbage) = 0

\* a screen too narrow for the bar alone, and a label given up whole
C10_Witness ==
  /\ Applied
  /\ result.screen_width < MINIMUM_BAR_WIDTH
  /\ result.label_length > 0
  /\ result.label_width = 0

====
